---- MODULE Spec2Model ----
(***************************************************************************)
(* Model of preprocessing/preprocessing.py.                                *)
(*                                                                         *)
(* The module exposes eight public functions.  A state holds one call of   *)
(* one of them (function name and arguments), the outcome of executing its *)
(* body, and the log of stage functions the orchestrator invoked while it  *)
(* ran.  Init draws the call from bounded argument sets; one action per    *)
(* function executes the body of that function.                            *)
(***************************************************************************)
EXTENDS Integers, Sequences, FiniteSets, TLC

VARIABLES call, pc, outcome, called

vars == <<call, pc, outcome, called>>

(* ---------------------------------------------------------------------- *)
(* Bounds and value sets                                                   *)
(* ---------------------------------------------------------------------- *)

\* longest text (in characters) given to a function
MaxLen == 4

\* characters of the texts: a letter, the hyphen, the line break, the space
Char == {"a", "-", "\n", " "}

RECURSIVE TextsOfLen(_)
TextsOfLen(n) ==
    IF n = 0 THEN {<<>>}
    ELSE {Append(t, c) : t \in TextsOfLen(n - 1), c \in Char}

Texts == UNION {TextsOfLen(n) : n \in 0..MaxLen}

\* Optional[X]: None is the empty tuple, a present value a one-tuple
None == <<>>
Some(v) == <<v>>

(* ---------------------------------------------------------------------- *)
(* Outcomes of a call                                                      *)
(* ---------------------------------------------------------------------- *)

NoOutcome == [kind |-> "none"]
Raise(exc, msg) == [kind |-> "raise", exc |-> exc, msg |-> msg]
Return(value) == [kind |-> "return", value |-> value]

(* ---------------------------------------------------------------------- *)
(* The eight functions, each computed as its body computes it              *)
(* ---------------------------------------------------------------------- *)

ocr_correction(text, model_path, use_remote, device, batch_size, verbose) ==
    Raise("NotImplementedError",
          "Implement OCR correction using the chosen model/service.")

normalize_unicode(text, form, remove_unsupported, allowed_categories) ==
    Raise("NotImplementedError",
          "Implement Unicode normalization and filtering.")

lowercase(text, aggressive) ==
    Raise("NotImplementedError",
          "Implement lowercasing with optional heuristics.")

split_sentences(text, method, language, keep_line_breaks) ==
    Raise("NotImplementedError",
          "Implement sentence splitting using the chosen method.")

handle_broken_words(text, join_hyphenated, max_line_gap, preserve_tokens) ==
    Raise("NotImplementedError",
          "Implement broken-word rejoining logic.")

normalize_whitespace(text, collapse_spaces, collapse_newlines, trim) ==
    Raise("NotImplementedError",
          "Implement whitespace normalization.")

normalize_quotes_and_accents(text, map_smart_quotes, normalize_apostrophes, ascii_fallback, accent_map) ==
    Raise("NotImplementedError",
          "Implement quote and accent normalization.")

preprocess_pipeline_returns(text, do_ocr_correction, do_unicode_normalize, do_lowercase, do_handle_broken, do_split_sentences, do_whitespace_normalize, do_quote_normalize, ocr_options, unicode_options, split_options, broken_options, whitespace_options, quote_options) ==
    Return(<<text>>)

preprocess_pipeline(text, do_ocr_correction, do_unicode_normalize, do_lowercase, do_handle_broken, do_split_sentences, do_whitespace_normalize, do_quote_normalize, ocr_options, unicode_options, split_options, broken_options, whitespace_options, quote_options) ==
    Raise("NotImplementedError",
          "Implement the preprocessing pipeline orchestration.")

(* ---------------------------------------------------------------------- *)
(* Calls                                                                   *)
(* ---------------------------------------------------------------------- *)

OcrCalls ==
    [fn : {"ocr_correction"}, text : Texts,
     model_path : {None, Some("bert")}, use_remote : BOOLEAN,
     device : {"cpu", "cuda"}, batch_size : {32}, verbose : BOOLEAN]

UnicodeCalls ==
    [fn : {"normalize_unicode"}, text : Texts,
     form : {"NFC", "NFD", "NFKC", "NFKD", "NFX"},
     remove_unsupported : BOOLEAN,
     allowed_categories : {None, Some(<<"L", "N", "P", "Z">>)}]

LowercaseCalls ==
    [fn : {"lowercase"}, text : Texts, aggressive : BOOLEAN]

SplitCalls ==
    [fn : {"split_sentences"}, text : Texts,
     method : {"simple", "punkt", "spacy", "model", "unknown"},
     language : {"it", "en"}, keep_line_breaks : BOOLEAN]

BrokenCalls ==
    [fn : {"handle_broken_words"}, text : Texts,
     join_hyphenated : BOOLEAN, max_line_gap : {0, 1},
     preserve_tokens : {None, Some(<< <<"a">> >>), Some(<< <<"A">> >>)}]

WhitespaceCalls ==
    [fn : {"normalize_whitespace"}, text : Texts,
     collapse_spaces : BOOLEAN, collapse_newlines : BOOLEAN, trim : BOOLEAN]

QuoteCalls ==
    [fn : {"normalize_quotes_and_accents"}, text : Texts,
     map_smart_quotes : BOOLEAN, normalize_apostrophes : BOOLEAN,
     ascii_fallback : BOOLEAN, accent_map : {None, Some([a |-> "a"])}]

PipelineCalls ==
    [fn : {"preprocess_pipeline"}, text : Texts,
     do_ocr_correction : BOOLEAN, do_unicode_normalize : BOOLEAN,
     do_lowercase : BOOLEAN, do_handle_broken : BOOLEAN,
     do_split_sentences : BOOLEAN, do_whitespace_normalize : BOOLEAN,
     do_quote_normalize : BOOLEAN,
     ocr_options : {None},
     unicode_options : {None, Some([form |-> "NFC"]), Some([form |-> "NFX"])},
     split_options : {None, Some([method |-> "simple"]),
                      Some([method |-> "unknown"])},
     broken_options : {None}, whitespace_options : {None},
     quote_options : {None}]

Calls ==
    OcrCalls \cup UnicodeCalls \cup LowercaseCalls \cup SplitCalls
    \cup BrokenCalls \cup WhitespaceCalls \cup QuoteCalls \cup PipelineCalls

(* ---------------------------------------------------------------------- *)
(* State machine                                                           *)
(* ---------------------------------------------------------------------- *)

Init ==
    /\ call \in Calls
    /\ pc = "called"
    /\ outcome = NoOutcome
    /\ called = <<>>

\* every body is a single raise statement: it invokes no other function of
\* the module and rebinds none of its arguments
Finish(result) ==
    /\ pc' = "done"
    /\ outcome' = result
    /\ UNCHANGED <<call, called>>

Call_ocr_correction ==
    /\ pc = "called"
    /\ call.fn = "ocr_correction"
    /\ Finish(ocr_correction(call.text, call.model_path, call.use_remote,
                             call.device, call.batch_size, call.verbose))

Call_normalize_unicode ==
    /\ pc = "called"
    /\ call.fn = "normalize_unicode"
    /\ Finish(normalize_unicode(call.text, call.form, call.remove_unsupported,
                                call.allowed_categories))

Call_lowercase ==
    /\ pc = "called"
    /\ call.fn = "lowercase"
    /\ Finish(lowercase(call.text, call.aggressive))

Call_split_sentences ==
    /\ pc = "called"
    /\ call.fn = "split_sentences"
    /\ Finish(split_sentences(call.text, call.method, call.language,
                              call.keep_line_breaks))

Call_handle_broken_words ==
    /\ pc = "called"
    /\ call.fn = "handle_broken_words"
    /\ Finish(handle_broken_words(call.text, call.join_hyphenated,
                                  call.max_line_gap, call.preserve_tokens))

Call_normalize_whitespace ==
    /\ pc = "called"
    /\ call.fn = "normalize_whitespace"
    /\ Finish(normalize_whitespace(call.text, call.collapse_spaces,
                                   call.collapse_newlines, call.trim))

Call_normalize_quotes_and_accents ==
    /\ pc = "called"
    /\ call.fn = "normalize_quotes_and_accents"
    /\ Finish(normalize_quotes_and_accents(call.text, call.map_smart_quotes,
                                           call.normalize_apostrophes,
                                           call.ascii_fallback,
                                           call.accent_map))

Call_preprocess_pipeline ==
    /\ pc = "called"
    /\ call.fn = "preprocess_pipeline"
    /\ Finish(preprocess_pipeline(call.text, call.do_ocr_correction,
                                  call.do_unicode_normalize,
                                  call.do_lowercase, call.do_handle_broken,
                                  call.do_split_sentences,
                                  call.do_whitespace_normalize,
                                  call.do_quote_normalize,
                                  call.ocr_options, call.unicode_options,
                                  call.split_options, call.broken_options,
                                  call.whitespace_options,
                                  call.quote_options))

Next ==
    \/ Call_ocr_correction
    \/ Call_normalize_unicode
    \/ Call_lowercase
    \/ Call_split_sentences
    \/ Call_handle_broken_words
    \/ Call_normalize_whitespace
    \/ Call_normalize_quotes_and_accents
    \/ Call_preprocess_pipeline

Spec == Init /\ [][Next]_vars

TypeOK ==
    /\ pc \in {"called", "done"}
    /\ call \in Calls
    /\ outcome.kind \in {"none", "raise", "return"}


(* ---------------------------------------------------------------------- *)
(* Vocabulary of the properties                                            *)
(* ---------------------------------------------------------------------- *)

Done(fn) == pc = "done" /\ call.fn = fn

Returned == outcome.kind = "return"

Raised(exc) == outcome.kind = "raise" /\ outcome.exc = exc

\* the stages of the orchestrator in the documented order, each with the
\* flag that enables it
StageOrder ==
    << "ocr_correction", "normalize_unicode", "normalize_quotes_and_accents",
       "handle_broken_words", "lowercase", "normalize_whitespace",
       "split_sentences" >>

Enabled(stage) ==
    CASE stage = "ocr_correction" -> call.do_ocr_correction
      [] stage = "normalize_unicode" -> call.do_unicode_normalize
      [] stage = "normalize_quotes_and_accents" -> call.do_quote_normalize
      [] stage = "handle_broken_words" -> call.do_handle_broken
      [] stage = "lowercase" -> call.do_lowercase
      [] stage = "normalize_whitespace" -> call.do_whitespace_normalize
      [] stage = "split_sentences" -> call.do_split_sentences

EnabledStages == SelectSeq(StageOrder, Enabled)

\* an entry of the log `called` is [stage, input, output]
CalledStages == [i \in 1..Len(called) |-> called[i].stage]

UnicodeForms == {"NFC", "NFD", "NFKC", "NFKD"}

SupportedMethods == {"simple", "punkt", "spacy", "model"}

OptionsLegal ==
    /\ \A i \in 1..Len(call.unicode_options) :
          call.unicode_options[i].form \in UnicodeForms
    /\ \A i \in 1..Len(call.split_options) :
          call.split_options[i].method \in SupportedMethods

(* ---------------------------------------------------------------------- *)
(* C10                                                                     *)
(* ---------------------------------------------------------------------- *)

\* C10: every finished call of any of the eight public functions has raised
\* NotImplementedError and returned no value, and the orchestrator has
\* invoked no stage function, whatever the flags and options.
C10_AlwaysNotImplemented ==
    pc = "done" =>
        /\ Raised("NotImplementedError")
        /\ ~Returned
        /\ called = <<>>

\* a finished orchestrator call with every stage enabled and legal options
C10_Witness ==
    /\ Done("preprocess_pipeline")
    /\ EnabledStages = StageOrder
    /\ OptionsLegal
    /\ Len(call.text) = MaxLen
    /\ Raised("NotImplementedError")

(* ---------------------------------------------------------------------- *)
(* C1                                                                      *)
(* ---------------------------------------------------------------------- *)

\* C1: a finished orchestrator call has run exactly the enabled stages, once
\* each, in the fixed order, the first on the input text and every later one
\* on the output of the stage run before it.
C1_StagesRunInOrder ==
    Done("preprocess_pipeline") =>
        /\ CalledStages = EnabledStages
        /\ \A i \in 1..Len(called) :
              called[i].input = IF i = 1 THEN call.text
                                ELSE called[i - 1].output

(* ---------------------------------------------------------------------- *)
(* C2                                                                      *)
(* ---------------------------------------------------------------------- *)

\* position of the last enabled stage before position i (0 when none)
RECURSIVE PrevEnabled(_)
PrevEnabled(i) ==
    IF i = 1 THEN 0
    ELSE IF Enabled(StageOrder[i - 1]) THEN i - 1 ELSE PrevEnabled(i - 1)

\* the log entries of a stage
EntriesOf(stage) == {k \in 1..Len(called) : called[k].stage = stage}

\* the Documents that stage position i received: the input text when no
\* enabled stage precedes it, otherwise what that stage produced
ReceivedAt(i) ==
    IF PrevEnabled(i) = 0 THEN {call.text}
    ELSE {called[k].output : k \in EntriesOf(StageOrder[PrevEnabled(i)])}

\* C2: in a finished orchestrator call, a disabled stage among the first six
\* was not called, and the next stage is handed the very Document the
\* disabled stage received.
C2_DisabledIsPassThrough ==
    Done("preprocess_pipeline") =>
        \A i \in 1..6 :
            ~Enabled(StageOrder[i]) =>
                /\ EntriesOf(StageOrder[i]) = {}
                /\ Enabled(StageOrder[i + 1]) =>
                      \E k \in EntriesOf(StageOrder[i + 1]) :
                          called[k].input \in ReceivedAt(i)

(* ---------------------------------------------------------------------- *)
(* C5                                                                      *)
(* ---------------------------------------------------------------------- *)

\* C5: a finished orchestrator call with an illegal stage option has ended
\* in an error with no stage run; with legal options it has returned a
\* sentence sequence.
C5_EagerValidation ==
    Done("preprocess_pipeline") =>
        IF OptionsLegal
        THEN Returned
        ELSE outcome.kind = "raise" /\ called = <<>>


(* ---------------------------------------------------------------------- *)
(* Text helpers of the properties                                          *)
(* ---------------------------------------------------------------------- *)

Whitespace == {" ", "\n"}

Letters == {"a", "A"}

IsText(v) == v \in Seq(Char)

RECURSIVE Trim(_)
Trim(t) ==
    IF t = <<>> THEN t
    ELSE IF Head(t) \in Whitespace THEN Trim(Tail(t))
    ELSE IF t[Len(t)] \in Whitespace THEN Trim(SubSeq(t, 1, Len(t) - 1))
    ELSE t

\* every run of whitespace becomes one space
RECURSIVE Collapse(_)
Collapse(t) ==
    IF t = <<>> THEN t
    ELSE IF Head(t) \in Whitespace
         THEN IF Len(t) > 1 /\ t[2] \in Whitespace
              THEN Collapse(Tail(t))
              ELSE <<" ">> \o Collapse(Tail(t))
         ELSE <<Head(t)>> \o Collapse(Tail(t))

RECURSIVE JoinWithSpace(_)
JoinWithSpace(ss) ==
    IF ss = <<>> THEN <<>>
    ELSE IF Len(ss) = 1 THEN ss[1]
    ELSE ss[1] \o <<" ">> \o JoinWithSpace(Tail(ss))

\* t[i] is a hyphen that ends its line, directly followed by a line break
\* and a continuation fragment
HyphenBreakAt(t, i) ==
    /\ i + 2 <= Len(t)
    /\ t[i] = "-"
    /\ t[i + 1] = "\n"
    /\ t[i + 2] \in Letters

HasHyphenBreak(t) ==
    \E i \in 2..Len(t) : t[i - 1] \in Letters /\ HyphenBreakAt(t, i)

\* the text with every hyphenated line break joined whose pre-hyphen
\* fragment frag (the letters directly before the hyphen) is no member of
\* preserve; the fragment is compared by equality, hence case-sensitively
RECURSIVE Rejoined(_, _, _, _)
Rejoined(t, i, frag, preserve) ==
    IF i > Len(t) THEN <<>>
    ELSE IF HyphenBreakAt(t, i) /\ frag # <<>> /\ frag \notin preserve
         THEN Rejoined(t, i + 2, <<>>, preserve)
         ELSE <<t[i]>> \o
              Rejoined(t, i + 1,
                       IF t[i] \in Letters THEN Append(frag, t[i]) ELSE <<>>,
                       preserve)

PreserveSet ==
    IF call.preserve_tokens = None THEN {}
    ELSE {call.preserve_tokens[1][k] : k \in 1..Len(call.preserve_tokens[1])}

(* ---------------------------------------------------------------------- *)
(* C3                                                                      *)
(* ---------------------------------------------------------------------- *)

\* C3: an orchestrator call that has returned normally has returned the
\* output of the sentence-splitting stage, which is the last stage in the
\* log, and every earlier stage took and produced a single text.
C3_ReturnsSplitterOutput ==
    (Done("preprocess_pipeline") /\ Returned) =>
        /\ called # <<>>
        /\ called[Len(called)].stage = "split_sentences"
        /\ outcome.value = called[Len(called)].output
        /\ \A i \in 1..(Len(called) - 1) :
              /\ called[i].stage # "split_sentences"
              /\ IsText(called[i].input)
              /\ IsText(called[i].output)

(* ---------------------------------------------------------------------- *)
(* C4                                                                      *)
(* ---------------------------------------------------------------------- *)

\* C4: a finished split_sentences call whose method is outside the
\* supported set has raised UnsupportedMethodError and returned nothing.
C4_UnsupportedMethod ==
    (Done("split_sentences") /\ call.method \notin SupportedMethods) =>
        /\ Raised("UnsupportedMethodError")
        /\ ~Returned

(* ---------------------------------------------------------------------- *)
(* C6                                                                      *)
(* ---------------------------------------------------------------------- *)

\* C6: a finished handle_broken_words call with join_hyphenated=True and
\* max_line_gap=0 on a text with a hyphenated line break has returned the
\* text with each such break joined unless its pre-hyphen fragment is a
\* preserved token, in which case that break is left as it was.
C6_RejoinsHyphenated ==
    ( /\ Done("handle_broken_words")
      /\ call.join_hyphenated
      /\ call.max_line_gap = 0
      /\ HasHyphenBreak(call.text) ) =>
        /\ Returned
        /\ outcome.value = Rejoined(call.text, 1, <<>>, PreserveSet)

(* ---------------------------------------------------------------------- *)
(* C7                                                                      *)
(* ---------------------------------------------------------------------- *)

\* C7: every sequence a finished split_sentences or orchestrator call has
\* returned holds only non-empty sentences without leading or trailing
\* whitespace.
C7_SentencesTrimmedNonEmpty ==
    ( /\ pc = "done"
      /\ call.fn \in {"split_sentences", "preprocess_pipeline"}
      /\ Returned ) =>
        \A i \in 1..Len(outcome.value) :
            /\ outcome.value[i] # <<>>
            /\ Trim(outcome.value[i]) = outcome.value[i]

(* ---------------------------------------------------------------------- *)
(* C8                                                                      *)
(* ---------------------------------------------------------------------- *)

\* C8: a finished normalize_whitespace call has returned a text on which a
\* second call with the same settings returns that same text.
C8_WhitespaceIdempotent ==
    Done("normalize_whitespace") =>
        /\ Returned
        /\ normalize_whitespace(outcome.value, call.collapse_spaces,
                                call.collapse_newlines, call.trim)
             = Return(outcome.value)

(* ---------------------------------------------------------------------- *)
(* C9                                                                      *)
(* ---------------------------------------------------------------------- *)

\* C9: a finished orchestrator call with only sentence splitting enabled has
\* returned sentences that, joined with single spaces, give the trimmed,
\* whitespace-collapsed input text.
C9_RoundTrip ==
    ( /\ Done("preprocess_pipeline")
      /\ EnabledStages = <<"split_sentences">> ) =>
        /\ Returned
        /\ JoinWithSpace(outcome.value) = Collapse(Trim(call.text))

====
